---- MODULE Spec2Model ----
(***************************************************************************)
(* Model of the buffer cache of kernel/bio.c: a fixed array of NBUF        *)
(* buffers on a circular doubly-linked list with a sentinel head, a        *)
(* cache-wide pthread mutex, one pthread mutex per buffer, and the four    *)
(* operations buf_cache_init, bread (with bget), bwrite and brelse, run    *)
(* by several threads one statement group at a time.                       *)
(***************************************************************************)
EXTENDS Integers, Sequences, FiniteSets, TLC

(***************************************************************************)
(* Program constants and model bounds.                                     *)
(***************************************************************************)
NBUF == 8

NThreads == 2
MaxBlockno == 0
MaxCalls == 2

head == 0
NULL == -1
NoThread == 0

Bufs == 1..NBUF
Nodes == {head} \cup Bufs
Threads == 1..NThreads
Blocknos == 0..MaxBlockno

\* The blocks the threads ask for: (0, 0), which every buffer carries at the
\* start, and the blocks of device 1.
Blocks == {<<0, 0>>} \cup ({1} \X Blocknos)

VARIABLES
  next, prev,        \* list links of head (node 0) and of buf[i-1] (node i)
  dev, blockno,      \* struct buf fields
  valid, refcnt,
  lock,              \* owner of each buffer's mutex, NoThread when free
  bcache_lock,       \* owner of bcache.lock, NoThread when free
  pc,                \* each thread's position in bread/bget/bwrite/brelse
  a_dev, a_blockno,  \* arguments of the running bread
  b,                 \* local/argument b of the running call
  success,           \* local of bwrite
  ret,               \* what the running bread is about to return (a buffer or NULL)
  wret,              \* what the running bwrite is about to return
  held,              \* buffers a thread got from bread and has not passed to brelse
  ncalls,            \* bread calls started so far (bounds the run)
  nfail,             \* per buffer: bread calls that selected it and returned NULL
  nwrite,            \* device writes issued by the thread's running bwrite
  relorder,          \* buffers in order of their last final release, latest first
  nread,             \* per buffer: device reads that succeeded since bget last assigned it
  arrival,           \* threads inside bread past bget's unlock of bcache.lock, earliest first
  hadlock,           \* whether the caller of the running bwrite owned b's lock at the call
  workload,          \* which callers run: "threads" or "serial"
  asked,             \* serial caller: the blocks asked for so far
  lastreq,           \* serial caller: the block asked for last (<<>> at the start)
  clean,             \* serial caller: so far only rounds bread(new block); brelse, all successful
  firstbuf,          \* serial caller: the buffer the first bread returned
  latest,            \* serial caller: the buffer the last bread returned, until released
  rnd                \* serial caller: the running repetition of bread(p); brelse

VARIABLES
  disk,              \* mklfs: the image file, block number -> block contents
  fsize,             \* mklfs: length of the image file in blocks
  imp,               \* mklfs: uint imp[NINODES]
  oob,               \* mklfs: what stores to imp[] past its end left behind
  imp_block_no,      \* mklfs: uint imp_block_no[NINODEMAP]
  freeinode,         \* mklfs: uint freeinode
  freeblock,         \* mklfs: uint freeblock
  mpc,               \* mklfs: position of main
  rootino,           \* mklfs: main's local rootino
  m_inum,            \* mklfs: main's local inum
  nfile,             \* mklfs: input files opened so far (main's i - 1)
  hostlen,           \* mklfs: length of the input file being streamed
  rdoff,             \* mklfs: offset of fd in the input file being streamed
  exitcode,          \* mklfs: exit status of the builder, NULL while it runs
  allocs,            \* mklfs: the calls of balloc that returned, in order
  hosts,             \* mklfs: per input file, its inode number and host length
  ioerr,             \* mklfs: the system calls that failed so far
  mon,               \* mklfs: what was observed at the start of every balloc and rsect
  hi                 \* mklfs: blocks >= FSSIZE written so far

vars == <<next, prev, dev, blockno, valid, refcnt, lock, bcache_lock, pc,
          a_dev, a_blockno, b, success, ret, wret, held, ncalls, nfail,
          nwrite, relorder, arrival, nread, hadlock, workload, asked, lastreq, clean, firstbuf,
          latest, rnd, disk, fsize, imp, oob, imp_block_no, freeinode,
          freeblock, mpc, rootino, m_inum, nfile, hostlen, rdoff, exitcode,
          allocs, hosts, ioerr, mon, hi>>

listvars == <<next, prev>>
locals == <<a_dev, a_blockno, b, success, ret, wret, nwrite, hadlock>>
bufvars == <<dev, blockno, valid, refcnt>>
ghostvars == <<nfail, relorder, arrival, nread>>
serialvars == <<asked, lastreq, clean, firstbuf, latest, rnd>>
cachevars == <<next, prev, dev, blockno, valid, refcnt, lock, bcache_lock, pc,
               a_dev, a_blockno, b, success, ret, wret, held, ncalls, nfail,
               nwrite, relorder, arrival, nread, hadlock, asked, lastreq, clean, firstbuf,
               latest, rnd>>
mkglobals == <<disk, fsize, imp, oob, imp_block_no, freeinode, freeblock>>
mklocals == <<mpc, rootino, m_inum, nfile, hostlen, rdoff, exitcode>>
mkghosts == <<allocs, hosts, ioerr, mon, hi>>
mkvars == <<mkglobals, mklocals, mkghosts>>

(***************************************************************************)
(* The list.                                                               *)
(***************************************************************************)
\* b->next = head.next; b->prev = &head; head.next->prev = b; head.next = b
InsertAtHead(L, x) ==
  LET n1 == [L.next EXCEPT ![x] = L.next[head]]
      p1 == [L.prev EXCEPT ![x] = head]
      p2 == [p1 EXCEPT ![n1[head]] = x]
      n2 == [n1 EXCEPT ![head] = x]
  IN  [next |-> n2, prev |-> p2]

\* Variant: only b->prev->next = b->next is executed.
UnlinkForwardOnly(L, x) ==
  [next |-> [L.next EXCEPT ![L.prev[x]] = L.next[x]], prev |-> L.prev]

\* b->next->prev = b->prev; b->prev->next = b->next
Unlink(L, x) ==
  LET p1 == [L.prev EXCEPT ![L.next[x]] = L.prev[x]]
      n1 == [L.next EXCEPT ![p1[x]] = L.next[x]]
  IN  [next |-> n1, prev |-> p1]

RECURSIVE InitLoop(_, _)
InitLoop(i, L) ==
  IF i < NBUF THEN InitLoop(i + 1, InsertAtHead(L, i + 1)) ELSE L

buf_cache_init ==
  InitLoop(0, [next |-> [x \in Nodes |-> head], prev |-> [x \in Nodes |-> head]])

\* The buffers from head.next to head.prev.
RECURSIVE Walk(_, _, _)
Walk(nx, x, fuel) ==
  IF x = head \/ fuel = 0 THEN <<>> ELSE <<x>> \o Walk(nx, nx[x], fuel - 1)

ListOrder == Walk(next, next[head], NBUF)

(***************************************************************************)
(* pthread mutexes.                                                        *)
(***************************************************************************)
\* pthread_mutex_unlock by t of a mutex owned by `owner`.  Unlocking a
\* default mutex the caller does not own is undefined: implementations
\* either free it or leave it as it is.  The variant never frees the mutex.
MutexUnlockKept(owner, t) == {owner}
MutexUnlock(owner, t) ==
  IF owner = t \/ owner = NoThread THEN {NoThread} ELSE {NoThread, owner}

\* pthread_mutex_lock by t of a free mutex: t owns it.  The variant leaves
\* the mutex free.
MutexLockSkipped(t) == NoThread
MutexLock(t) == t

\* pthread_mutex_trylock: 0 when the mutex was free (and is now owned by
\* the caller), EBUSY otherwise.
MutexTrylock(owner) == IF owner = NoThread THEN 0 ELSE 16

(***************************************************************************)
(* The block device: virtio_disk_rw(b, write) returns whether it worked.   *)
(***************************************************************************)
virtio_disk_rw == BOOLEAN

\* The device the serial caller runs on never fails.
DiskResults(w) == IF w = "serial" THEN {TRUE} ELSE virtio_disk_rw

(***************************************************************************)
(* bget's two scans.                                                       *)
(***************************************************************************)
\* Mutant: the lookup matches valid buffers only.
BufMatchesValid(x, d, n) == dev[x] = d /\ blockno[x] = n /\ valid[x]

\* Mutant: the lookup compares block numbers only.
BufMatchesBlockno(x, d, n) == blockno[x] = n

\* b->dev == dev && b->blockno == blockno
BufMatches(x, d, n) == dev[x] = d /\ blockno[x] = n

\* Mutant: the lookup loop stops after head.next.
ScanCachedFirstOnly(x, d, n) ==
  IF x # head /\ BufMatches(x, d, n) THEN x ELSE head

\* Mutant: the lookup loop never runs.
ScanCachedNever(x, d, n) == head

\* for (b = head.next; b != &head; b = b->next) if (match) ...; head when
\* the loop ends without a match.
RECURSIVE ScanCached(_, _, _)
ScanCached(x, d, n) ==
  IF x = head THEN head
  ELSE IF BufMatches(x, d, n) THEN x
  ELSE ScanCached(next[x], d, n)

\* Variant: a buffer with a single reference counts as unused.
BufUnusedOrSingle(x) == refcnt[x] <= 1

\* b->refcnt == 0
BufUnused(x) == refcnt[x] = 0

\* Mutant: with no unused buffer the recycle loop falls back to head.next.
RECURSIVE ScanLRUFallback(_)
ScanLRUFallback(x) ==
  IF x = head THEN next[head]
  ELSE IF BufUnused(x) THEN x
  ELSE ScanLRUFallback(prev[x])

\* Mutant: the recycle loop steps with b->next.
RECURSIVE ScanLRUForward(_)
ScanLRUForward(x) ==
  IF x = head THEN head
  ELSE IF BufUnused(x) THEN x
  ELSE ScanLRUForward(next[x])

\* for (b = head.prev; b != &head; b = b->prev) if (b->refcnt == 0) ...; head
\* when the loop ends without finding one.
RECURSIVE ScanLRU(_)
ScanLRU(x) ==
  IF x = head THEN head
  ELSE IF BufUnused(x) THEN x
  ELSE ScanLRU(prev[x])

(***************************************************************************)
(* Initial state: static zero-initialised bcache after buf_cache_init.     *)
(***************************************************************************)
\* What C10 compares: every buffer's dev, blockno, valid, refcnt and lock.
CacheState == <<dev, blockno, valid, refcnt, lock>>

NoRound == [req |-> <<>>, buf |-> NULL, n |-> 0, snap |-> <<>>]

InitCache ==
  /\ next = buf_cache_init.next
  /\ prev = buf_cache_init.prev
  /\ dev = [x \in Bufs |-> 0]
  /\ blockno = [x \in Bufs |-> 0]
  /\ valid = [x \in Bufs |-> FALSE]
  /\ refcnt = [x \in Bufs |-> 0]
  /\ lock = [x \in Bufs |-> NoThread]
  /\ bcache_lock = NoThread
  /\ pc = [t \in Threads |-> "idle"]
  /\ a_dev = [t \in Threads |-> 0]
  /\ a_blockno = [t \in Threads |-> 0]
  /\ b = [t \in Threads |-> NULL]
  /\ success = [t \in Threads |-> FALSE]
  /\ ret = [t \in Threads |-> NULL]
  /\ wret = [t \in Threads |-> FALSE]
  /\ held = [t \in Threads |-> {}]
  /\ ncalls = 0
  /\ nfail = [x \in Bufs |-> 0]
  /\ nwrite = [t \in Threads |-> 0]
  /\ relorder = <<>>
  /\ arrival = <<>>
  /\ nread = [x \in Bufs |-> 0]
  /\ hadlock = [t \in Threads |-> FALSE]
  /\ asked = {}
  /\ lastreq = <<>>
  /\ clean = TRUE
  /\ firstbuf = NULL
  /\ latest = NULL
  /\ rnd = NoRound

(***************************************************************************)
(* mklfs, the builder of the log-structured file system image              *)
(* (src/mklfs/mklfs.c, src/mklfs/lfs.h).                                   *)
(*                                                                         *)
(* The sizes are scaled down.  A block holds BSIZE cells of file content;  *)
(* one cell stands for sizeof(struct dirent) bytes, so a directory entry   *)
(* is one cell and an input file is a sequence of cells.  A block of block *)
(* numbers holds NINDIRECT of them.                                        *)
(***************************************************************************)
BSIZE == 2
SEGSIZE == 4
FSSIZE == 26
NINODES == 4
NMETA == 4
NDIRECT == 2
NINDIRECT == 2
MaxFiles == 3
UINTBITS == 32

ROOTINO == 1
SEGSUM_EMPTY == 0
SEGSUM_INODE == 1
SEGSUM_DATA == 2
SEGSUM_INDIRECT == 3
SEGSUM_IMAP == 4
T_DIR == 1
T_FILE == 2

NENTRY == NINDIRECT
MAXFILE == NDIRECT + NINDIRECT
NINODEMAP == (NINODES + NENTRY - 1) \div NENTRY
NSEG == (FSSIZE - NMETA) \div SEGSIZE
SEGNO(i) == (i - NMETA) \div SEGSIZE
\* segtable[] is sized in whole units of sizeof(uint) * 8 bits.
SEGTABLEBITS == ((NSEG + UINTBITS - 1) \div UINTBITS) * UINTBITS

(* The cells of file content: a zero cell, a directory entry (inum, name),  *)
(* and cell o of input file f.  Names: 0 is ".", 1 is "..", 1 + f is the   *)
(* name of input file f.                                                   *)
ZeroCell == <<0, 0, 0>>
Dirent(inum, name) == <<1, inum, name>>
HostCell(f, o) == <<2, f, o>>

(* Block contents, by the structure they were written as.  A block of      *)
(* zeroes reads as any of them.                                            *)
ZeroBlock == [kind |-> "zeroes"]
ZeroEntry == [block_type |-> SEGSUM_EMPTY, inum |-> 0, block_no |-> 0]
ZeroDinode == [type |-> 0, nlink |-> 0, size |-> 0,
               addrs |-> [k \in 0..NDIRECT |-> 0]]
SegsumBlock(e) == [kind |-> "dsegsum", entry |-> e]
InodeBlock(d) == [kind |-> "dinode", din |-> d]
DataBlock(c) == [kind |-> "data", cells |-> c]
IndirectBlock(a) == [kind |-> "indirect", addrs |-> a]
ImapBlock(a) == [kind |-> "dimap", addr |-> a]
ChkptBlock(im, st, ts) ==
  [kind |-> "checkpoint", imap |-> im, segtable |-> st, timestamp |-> ts]
SuperBlock == [kind |-> "superblock", nblocks |-> FSSIZE - NMETA,
               nsegments |-> NSEG, ninodes |-> NINODES,
               checkpoint1 |-> 2, checkpoint2 |-> 3, segstart |-> NMETA]

AsSegsum(blk) ==
  IF blk.kind = "dsegsum" THEN blk.entry ELSE [k \in 0..(SEGSIZE - 2) |-> ZeroEntry]
AsDinode(blk) == IF blk.kind = "dinode" THEN blk.din ELSE ZeroDinode
AsData(blk) ==
  IF blk.kind = "data" THEN blk.cells ELSE [k \in 0..(BSIZE - 1) |-> ZeroCell]
AsIndirect(blk) ==
  IF blk.kind = "indirect" THEN blk.addrs ELSE [k \in 0..(NINDIRECT - 1) |-> 0]

(* The builder before main runs: the initialised globals of mklfs.c.       *)
MkStart ==
  /\ disk = [k \in 0..(-1) |-> ZeroBlock]
  /\ fsize = 0
  /\ imp = [k \in 0..(NINODES - 1) |-> 0]
  /\ oob = [k \in NINODES..(NINODES + MaxFiles) |-> 0]
  /\ imp_block_no = [k \in 0..(NINODEMAP - 1) |-> 0]
  /\ freeinode = 1
  /\ freeblock = 0
  /\ mpc = "main"
  /\ rootino = 0
  /\ m_inum = 0
  /\ nfile = 0
  /\ hostlen = 0
  /\ rdoff = 0
  /\ exitcode = NULL
  /\ allocs = <<>>
  /\ hosts = <<>>
  /\ ioerr = {}
  /\ mon = [summary |-> TRUE, typed |-> TRUE]
  /\ hi = {}

Init == InitCache /\ MkStart /\ workload \in {"threads", "serial"}

(***************************************************************************)
(* Callers.  A thread calls bwrite and brelse only on a buffer it got      *)
(* from bread and has not released, and does not ask again for a block it  *)
(* is holding.  A finished call's locals are dead and are cleared.         *)
(*                                                                         *)
(* Two kinds of callers are run.  "threads": NThreads threads, each        *)
(* holding one buffer at a time, ask for the blocks of Blocks and          *)
(* may bwrite what they hold, MaxCalls bread calls in all, on a device     *)
(* that may fail.  "serial": thread 1 alone makes NBUF + 1 bread calls,    *)
(* each for the next block of device 1 never asked for, for (0, 0) (the    *)
(* pair every buffer carries at the start) if not asked for yet, or once   *)
(* more for the block of the round bread(p); brelse just finished; after   *)
(* each bread it releases the buffer at once or keeps it for good, so it   *)
(* may come to hold all NBUF buffers; its device never fails.              *)
(***************************************************************************)
Serial == workload = "serial"

Callers == IF Serial THEN {1} ELSE Threads

CallLimit == IF Serial THEN NBUF + 1 ELSE MaxCalls

HeldLimit == IF Serial THEN NBUF + 1 ELSE 1

NewBlock == <<1, Cardinality({p \in asked : p[1] = 1}) + 1>>

Requests ==
  IF Serial
  THEN {NewBlock} \cup (IF <<0, 0>> \in asked THEN {} ELSE {<<0, 0>>})
                  \cup (IF rnd.n = 1 THEN {rnd.req} ELSE {})
  ELSE Blocks

Return(t) ==
  /\ pc' = [pc EXCEPT ![t] = "idle"]
  /\ a_dev' = [a_dev EXCEPT ![t] = 0]
  /\ a_blockno' = [a_blockno EXCEPT ![t] = 0]
  /\ b' = [b EXCEPT ![t] = NULL]
  /\ success' = [success EXCEPT ![t] = FALSE]
  /\ ret' = [ret EXCEPT ![t] = NULL]
  /\ wret' = [wret EXCEPT ![t] = FALSE]
  /\ nwrite' = [nwrite EXCEPT ![t] = 0]
  /\ hadlock' = [hadlock EXCEPT ![t] = FALSE]

CallBread(t, d, n) ==
  /\ pc[t] = "idle"
  /\ t \in Callers
  /\ ncalls < CallLimit
  /\ Cardinality(held[t]) < HeldLimit
  /\ \A x \in held[t] : ~BufMatches(x, d, n)
  /\ pc' = [pc EXCEPT ![t] = "bget_scan"]
  /\ a_dev' = [a_dev EXCEPT ![t] = d]
  /\ a_blockno' = [a_blockno EXCEPT ![t] = n]
  /\ ncalls' = ncalls + 1
  /\ IF Serial
     THEN /\ asked' = asked \cup {<<d, n>>}
          /\ lastreq' = <<d, n>>
          /\ clean' = (clean /\ <<d, n>> \notin asked /\ held[t] = {})
          /\ rnd' = IF rnd.n = 1 /\ rnd.req = <<d, n>>
                    THEN rnd
                    ELSE [NoRound EXCEPT !.req = <<d, n>>]
          /\ latest' = NULL
          /\ UNCHANGED firstbuf
     ELSE UNCHANGED serialvars
  /\ UNCHANGED <<listvars, bufvars, lock, bcache_lock, b, success, ret, wret, nwrite,
                 hadlock, held, ghostvars, workload, mkvars>>

CallBwrite(t, x) ==
  /\ pc[t] = "idle"
  /\ x \in held[t]
  /\ ~Serial
  /\ pc' = [pc EXCEPT ![t] = "bwrite_trylock"]
  /\ b' = [b EXCEPT ![t] = x]
  /\ hadlock' = [hadlock EXCEPT ![t] = (lock[x] = t)]
  /\ UNCHANGED <<listvars, bufvars, lock, bcache_lock, a_dev, a_blockno, success,
                 ret, wret, nwrite, held, ncalls, ghostvars, workload, mkvars, serialvars>>

CallBrelse(t, x) ==
  /\ pc[t] = "idle"
  /\ x \in held[t]
  /\ Serial => x = latest
  /\ pc' = [pc EXCEPT ![t] = "brelse_dec"]
  /\ b' = [b EXCEPT ![t] = x]
  /\ held' = [held EXCEPT ![t] = @ \ {x}]
  /\ IF Serial
     THEN /\ rnd' = IF x = rnd.buf THEN rnd ELSE NoRound
          /\ latest' = NULL
          /\ UNCHANGED <<asked, lastreq, clean, firstbuf>>
     ELSE UNCHANGED serialvars
  /\ UNCHANGED <<listvars, bufvars, lock, bcache_lock, a_dev, a_blockno, success,
                 ret, wret, nwrite, hadlock, ncalls, ghostvars, workload, mkvars>>

(***************************************************************************)
(* bget                                                                    *)
(***************************************************************************)
\* b->valid = false, in the recycle loop.  The variant leaves the flag.
ValidKept(v) == v
ValidOfRecycled(v) == FALSE

\* pthread_mutex_lock(&bcache.lock) and the two loops, which run with
\* bcache.lock held.
bget_scan(t) ==
  /\ pc[t] = "bget_scan"
  /\ bcache_lock = NoThread
  /\ bcache_lock' = MutexLock(t)
  /\ LET hit == ScanCached(next[head], a_dev[t], a_blockno[t])
         lru == ScanLRU(prev[head])
     IN  IF hit # head
         THEN /\ refcnt' = [refcnt EXCEPT ![hit] = @ + 1]
              /\ b' = [b EXCEPT ![t] = hit]
              /\ UNCHANGED <<dev, blockno, valid, nread>>
         ELSE IF lru # head
         THEN /\ dev' = [dev EXCEPT ![lru] = a_dev[t]]
              /\ blockno' = [blockno EXCEPT ![lru] = a_blockno[t]]
              /\ valid' = [valid EXCEPT ![lru] = ValidOfRecycled(valid[lru])]
              /\ refcnt' = [refcnt EXCEPT ![lru] = 1]
              /\ b' = [b EXCEPT ![t] = lru]
              /\ nread' = [nread EXCEPT ![lru] = 0]
         ELSE /\ b' = [b EXCEPT ![t] = NULL]
              /\ UNCHANGED <<bufvars, nread>>
  /\ pc' = [pc EXCEPT ![t] = "bget_unlock"]
  /\ UNCHANGED <<listvars, lock, a_dev, a_blockno, success, ret, wret, nwrite,
                 hadlock, held, ncalls, nfail, relorder, arrival,
                 workload, mkvars, serialvars>>

\* The owner of bcache.lock once bget has gone past its
\* pthread_mutex_unlock(&bcache.lock), which precedes
\* pthread_mutex_lock(&b->lock) and return NULL alike.  The variant unlocks
\* on the exhausted path only.
CacheOwnerOnlyExhausted(t, x) == IF x = NULL THEN NoThread ELSE t
CacheOwnerAfterBget(t, x) == NoThread

\* pthread_mutex_unlock(&bcache.lock); on the exhausted path bget and then
\* bread return NULL.
bget_unlock(t) ==
  /\ pc[t] = "bget_unlock"
  /\ bcache_lock' = CacheOwnerAfterBget(t, b[t])
  /\ pc' = [pc EXCEPT ![t] = IF b[t] = NULL THEN "bread_ret" ELSE "bget_acquire"]
  /\ arrival' = IF b[t] = NULL THEN arrival ELSE Append(arrival, t)
  /\ UNCHANGED <<listvars, bufvars, lock, a_dev, a_blockno, b, success, ret, wret,
                 nwrite, hadlock, held, ncalls, nfail, relorder, nread,
                 workload, mkvars, serialvars>>

\* pthread_mutex_lock(&b->lock); return b
bget_acquire(t) ==
  /\ pc[t] = "bget_acquire"
  /\ lock[b[t]] = NoThread
  /\ lock' = [lock EXCEPT ![b[t]] = MutexLock(t)]
  /\ pc' = [pc EXCEPT ![t] = "bread_check"]
  /\ UNCHANGED <<listvars, bufvars, bcache_lock, a_dev, a_blockno, b, success, ret,
                 wret, nwrite, hadlock, held, ncalls, ghostvars,
                 workload, mkvars, serialvars>>

(***************************************************************************)
(* bread                                                                   *)
(***************************************************************************)
\* !b->valid.  The variant reads the block in on every bread.
NeedsReadAlways(x) == TRUE
NeedsRead(x) == ~valid[x]

\* if (!b->valid)
bread_check(t) ==
  /\ pc[t] = "bread_check"
  /\ IF NeedsRead(b[t])
     THEN /\ pc' = [pc EXCEPT ![t] = "bread_rw"]
          /\ UNCHANGED ret
     ELSE /\ pc' = [pc EXCEPT ![t] = "bread_ret"]
          /\ ret' = [ret EXCEPT ![t] = b[t]]
  /\ UNCHANGED <<listvars, bufvars, lock, bcache_lock, a_dev, a_blockno, b, success,
                 wret, nwrite, hadlock, held, ncalls, ghostvars,
                 workload, mkvars, serialvars>>

\* virtio_disk_rw(b, 0)
bread_rw(t) ==
  /\ pc[t] = "bread_rw"
  /\ \E ok \in DiskResults(workload) :
       /\ pc' = [pc EXCEPT ![t] = IF ok THEN "bread_valid" ELSE "bread_fail"]
       /\ nread' = [nread EXCEPT ![b[t]] = IF ok THEN @ + 1 ELSE @]
  /\ UNCHANGED <<listvars, bufvars, lock, bcache_lock, a_dev, a_blockno, b, success,
                 ret, wret, nwrite, hadlock, held, ncalls, nfail, relorder, arrival,
                 workload, mkvars, serialvars>>

\* pthread_mutex_unlock(&b->lock); return NULL
bread_fail(t) ==
  /\ pc[t] = "bread_fail"
  /\ \E o \in MutexUnlock(lock[b[t]], t) : lock' = [lock EXCEPT ![b[t]] = o]
  /\ ret' = [ret EXCEPT ![t] = NULL]
  /\ nfail' = [nfail EXCEPT ![b[t]] = @ + 1]
  /\ pc' = [pc EXCEPT ![t] = "bread_ret"]
  /\ UNCHANGED <<listvars, bufvars, bcache_lock, a_dev, a_blockno, b, success, wret,
                 nwrite, hadlock, held, ncalls, relorder, arrival, nread, workload, mkvars,
                 serialvars>>

\* b->valid = true; return b
bread_valid(t) ==
  /\ pc[t] = "bread_valid"
  /\ valid' = [valid EXCEPT ![b[t]] = TRUE]
  /\ ret' = [ret EXCEPT ![t] = b[t]]
  /\ pc' = [pc EXCEPT ![t] = "bread_ret"]
  /\ UNCHANGED <<listvars, dev, blockno, refcnt, lock, bcache_lock, a_dev, a_blockno,
                 b, success, wret, nwrite, hadlock, held, ncalls, ghostvars,
                 workload, mkvars, serialvars>>

\* bread hands its result to the caller.
bread_ret(t) ==
  /\ pc[t] = "bread_ret"
  /\ held' = [held EXCEPT ![t] = IF ret[t] # NULL THEN @ \cup {ret[t]} ELSE @]
  /\ Return(t)
  /\ IF Serial
     THEN /\ clean' = (clean /\ ret[t] # NULL)
          /\ rnd' = IF ret[t] # NULL THEN [rnd EXCEPT !.buf = ret[t]] ELSE NoRound
          /\ firstbuf' = IF ncalls = 1 THEN ret[t] ELSE firstbuf
          /\ latest' = ret[t]
          /\ UNCHANGED <<asked, lastreq>>
     ELSE UNCHANGED serialvars
  /\ arrival' = SelectSeq(arrival, LAMBDA u : u # t)
  /\ UNCHANGED <<listvars, bufvars, lock, bcache_lock, ncalls, nfail, relorder,
                 nread, workload, mkvars>>

(***************************************************************************)
(* bwrite                                                                  *)
(***************************************************************************)
\* if (!pthread_mutex_trylock(&b->lock)) return false;
bwrite_trylock(t) ==
  /\ pc[t] = "bwrite_trylock"
  /\ IF MutexTrylock(lock[b[t]]) = 0
     THEN /\ lock' = [lock EXCEPT ![b[t]] = t]
          /\ wret' = [wret EXCEPT ![t] = FALSE]
          /\ pc' = [pc EXCEPT ![t] = "bwrite_ret"]
     ELSE /\ pc' = [pc EXCEPT ![t] = "bwrite_rw"]
          /\ UNCHANGED <<lock, wret>>
  /\ UNCHANGED <<listvars, bufvars, bcache_lock, a_dev, a_blockno, b, success, ret,
                 nwrite, hadlock, held, ncalls, ghostvars,
                 workload, mkvars, serialvars>>

\* bool success = virtio_disk_rw(b, 1);
bwrite_rw(t) ==
  /\ pc[t] = "bwrite_rw"
  /\ \E ok \in DiskResults(workload) : success' = [success EXCEPT ![t] = ok]
  /\ nwrite' = [nwrite EXCEPT ![t] = @ + 1]
  /\ pc' = [pc EXCEPT ![t] = "bwrite_unlock"]
  /\ UNCHANGED <<listvars, bufvars, lock, bcache_lock, a_dev, a_blockno, b, ret, wret,
                 hadlock, held, ncalls, ghostvars,
                 workload, mkvars, serialvars>>

\* pthread_mutex_unlock(&b->lock); return success;
bwrite_unlock(t) ==
  /\ pc[t] = "bwrite_unlock"
  /\ \E o \in MutexUnlock(lock[b[t]], t) : lock' = [lock EXCEPT ![b[t]] = o]
  /\ wret' = [wret EXCEPT ![t] = success[t]]
  /\ pc' = [pc EXCEPT ![t] = "bwrite_ret"]
  /\ UNCHANGED <<listvars, bufvars, bcache_lock, a_dev, a_blockno, b, success, ret,
                 nwrite, hadlock, held, ncalls, ghostvars,
                 workload, mkvars, serialvars>>

\* bwrite hands its result to the caller.
bwrite_ret(t) ==
  /\ pc[t] = "bwrite_ret"
  /\ Return(t)
  /\ UNCHANGED <<listvars, bufvars, lock, bcache_lock, held, ncalls, ghostvars,
                 workload, mkvars, serialvars>>

(***************************************************************************)
(* brelse                                                                  *)
(***************************************************************************)
\* if (b->refcnt == 0), after the decrement.  The variant moves the buffer
\* on every release.
EveryRelease(r) == TRUE
FinalRelease(r) == r = 0

\* pthread_mutex_lock(&bcache.lock); b->refcnt--;
\* if (b->refcnt == 0) { move b to head.next }
brelse_dec(t) ==
  /\ pc[t] = "brelse_dec"
  /\ bcache_lock = NoThread
  /\ bcache_lock' = MutexLock(t)
  /\ refcnt' = [refcnt EXCEPT ![b[t]] = @ - 1]
  /\ IF FinalRelease(refcnt[b[t]] - 1)
     THEN LET L == InsertAtHead(Unlink([next |-> next, prev |-> prev], b[t]), b[t])
          IN  /\ next' = L.next
              /\ prev' = L.prev
              /\ relorder' = <<b[t]>> \o SelectSeq(relorder, LAMBDA x : x # b[t])
     ELSE UNCHANGED <<next, prev, relorder>>
  /\ pc' = [pc EXCEPT ![t] = "brelse_unlock"]
  /\ UNCHANGED <<dev, blockno, valid, lock, a_dev, a_blockno, b, success, ret, wret,
                 nwrite, hadlock, held, ncalls, nfail, arrival, nread,
                 workload, mkvars, serialvars>>

\* pthread_mutex_unlock(&bcache.lock)
brelse_unlock(t) ==
  /\ pc[t] = "brelse_unlock"
  /\ bcache_lock' = NoThread
  /\ pc' = [pc EXCEPT ![t] = "brelse_unlock_buf"]
  /\ UNCHANGED <<listvars, bufvars, lock, a_dev, a_blockno, b, success, ret, wret,
                 nwrite, hadlock, held, ncalls, ghostvars,
                 workload, mkvars, serialvars>>

\* pthread_mutex_unlock(&b->lock); brelse returns.
brelse_unlock_buf(t) ==
  /\ pc[t] = "brelse_unlock_buf"
  /\ \E o \in MutexUnlock(lock[b[t]], t) : lock' = [lock EXCEPT ![b[t]] = o]
  /\ Return(t)
  /\ IF Serial
     THEN /\ rnd' = IF rnd.buf = b[t]
                    THEN [rnd EXCEPT !.n = @ + 1, !.buf = NULL,
                                     !.snap = IF rnd.n = 0
                                              THEN <<dev, blockno, valid, refcnt, lock'>>
                                              ELSE @]
                    ELSE NoRound
          /\ UNCHANGED <<asked, lastreq, clean, firstbuf, latest>>
     ELSE UNCHANGED serialvars
  /\ UNCHANGED <<listvars, bufvars, bcache_lock, held, ncalls, ghostvars, workload, mkvars>>

(***************************************************************************)
(* Threads calling into the cache concurrently.                            *)
(***************************************************************************)
Bread(t) == \E r \in Requests : CallBread(t, r[1], r[2])
Bwrite(t) == \E x \in Bufs : CallBwrite(t, x)
Brelse(t) == \E x \in Bufs : CallBrelse(t, x)

Step(t) ==
  \/ bget_scan(t)
  \/ bget_unlock(t)
  \/ bget_acquire(t)
  \/ bread_check(t)
  \/ bread_rw(t)
  \/ bread_fail(t)
  \/ bread_valid(t)
  \/ bread_ret(t)
  \/ bwrite_trylock(t)
  \/ bwrite_rw(t)
  \/ bwrite_unlock(t)
  \/ bwrite_ret(t)
  \/ brelse_dec(t)
  \/ brelse_unlock(t)
  \/ brelse_unlock_buf(t)

Next == \E t \in Threads : Bread(t) \/ Bwrite(t) \/ Brelse(t) \/ Step(t)

Spec == Init /\ [][Next]_vars

(***************************************************************************)
(* Vocabulary of the properties.                                           *)
(***************************************************************************)
SamePair(x, y) == dev[x] = dev[y] /\ blockno[x] = blockno[y]

\* t is between a bread that returned x and its brelse(x).
Holds(t, x) == x \in held[t]

\* t is inside bread, bget has given it x, and it has not returned NULL for x.
IsInBread(t, x) ==
  /\ b[t] = x
  /\ \/ pc[t] \in {"bget_unlock", "bget_acquire", "bread_check", "bread_rw",
                   "bread_valid", "bread_fail"}
     \/ pc[t] = "bread_ret" /\ ret[t] = x

\* t has called brelse(x) and has not decremented refcnt yet.
IsInBrelse(t, x) == pc[t] = "brelse_dec" /\ b[t] = x

IsOutstanding(t, x) == Holds(t, x) \/ IsInBread(t, x) \/ IsInBrelse(t, x)

Holders(x) == {t \in Threads : Holds(t, x)}
InBread(x) == {t \in Threads : IsInBread(t, x)}
InBrelse(x) == {t \in Threads : IsInBrelse(t, x)}
Outstanding(x) == {t \in Threads : IsOutstanding(t, x)}

\* bread returned NULL to t because the device read of b[t] failed.
FailedReturn(t) == pc[t] = "bread_ret" /\ ret[t] = NULL /\ b[t] # NULL

\* bread is returning NULL to t because no buffer could be had.
NilReturn(t) == pc[t] = "bread_ret" /\ ret[t] = NULL /\ b[t] = NULL

AllPinned == \A x \in Bufs : refcnt[x] > 0

Range(q) == {q[i] : i \in 1..Len(q)}

\* The unused buffers, from head.next to head.prev.
UnusedInList == SelectSeq(ListOrder, BufUnused)

(***************************************************************************)
(* C1: at most one thread at a time is between a bread that returned       *)
(* buffer x and its own brelse(x), also when the holder calls bwrite.      *)
(* Refuted: bwrite unlocks the buffer lock the caller holds.               *)
(***************************************************************************)
C1_MutualExclusion ==
  \A x \in Bufs : Cardinality(Holders(x)) <= 1

(***************************************************************************)
(* C2: no two buffers with refcnt > 0 carry the same (dev, blockno), so    *)
(* the threads with an outstanding bread of one block all have the same    *)
(* buffer, whose refcnt counts them (exactly, unless a failed read left a  *)
(* pin on it).                                                             *)
(***************************************************************************)
C2_OneLiveBufferPerBlock ==
  /\ \A x, y \in Bufs :
       x # y /\ refcnt[x] > 0 /\ refcnt[y] > 0 => ~SamePair(x, y)
  /\ \A x \in Bufs :
       LET n == Cardinality(Outstanding(x))
       IN  /\ refcnt[x] >= n
           /\ nfail[x] = 0 => refcnt[x] = n

C2_Witness ==
  \E x \in Bufs :
    /\ refcnt[x] = 2
    /\ Holders(x) # {}
    /\ \E t \in Threads : pc[t] = "bget_acquire" /\ b[t] = x /\ t \notin Holders(x)

(***************************************************************************)
(* C3, as stated: no two buffers in the list ever share (dev, blockno).    *)
(* Refuted by the state right after buf_cache_init, where all NBUF         *)
(* zero-initialised buffers carry (0, 0).                                  *)
(***************************************************************************)
C3_NoTwoBuffersShare ==
  \A x, y \in Bufs : x # y => ~SamePair(x, y)

(***************************************************************************)
(* C3, amended: no two buffers that are in use or valid share              *)
(* (dev, blockno); the only buffers sharing a pair are never-assigned      *)
(* ones still carrying (0, 0), with at most one used buffer among them.    *)
(***************************************************************************)
C3_NoTwoUsedBuffersShare ==
  \A x, y \in Bufs :
    /\ x # y
    /\ valid[x] \/ refcnt[x] > 0
    /\ valid[y] \/ refcnt[y] > 0
    => ~SamePair(x, y)

C3_Witness ==
  \E x, y \in Bufs :
    /\ x # y
    /\ valid[x] /\ SamePair(x, y) /\ dev[x] = 0 /\ blockno[x] = 0
    /\ \E z \in Bufs : valid[z] /\ ~SamePair(x, z)

(***************************************************************************)
(* C4: when bread returns a buffer, it carries the requested dev and       *)
(* blockno, is valid, has refcnt >= 1 and its lock is held by the caller.  *)
(* Refuted: after a bwrite by the previous holder the lock is free, the    *)
(* next thread takes it, and the previous holder's brelse unlocks it       *)
(* under that thread.                                                      *)
(***************************************************************************)
C4_BreadReturnsLockedValid ==
  \A t \in Threads :
    pc[t] = "bread_ret" /\ ret[t] # NULL =>
      /\ dev[ret[t]] = a_dev[t]
      /\ blockno[ret[t]] = a_blockno[t]
      /\ valid[ret[t]]
      /\ refcnt[ret[t]] >= 1
      /\ lock[ret[t]] = t

(***************************************************************************)
(* C5: a bread for a block no buffer carries, made when every buffer has   *)
(* refcnt > 0, returns NULL, and none of its steps changes any buffer's    *)
(* dev, blockno, valid, refcnt or lock, nor the list.                      *)
(***************************************************************************)
C5_NilStep(t) ==
  \/ /\ pc[t] = "bget_scan"
     /\ AllPinned
     /\ \A x \in Bufs : ~BufMatches(x, a_dev[t], a_blockno[t])
  \/ pc[t] = "bget_unlock" /\ b[t] = NULL
  \/ NilReturn(t)

C5_ExhaustedBreadReturnsNil ==
  [][\A t \in Threads :
       C5_NilStep(t) /\ pc'[t] # pc[t] =>
         /\ UNCHANGED <<dev, blockno, valid, refcnt, lock, next, prev>>
         /\ pc[t] = "bget_scan" => pc'[t] = "bget_unlock" /\ b'[t] = NULL
         /\ pc[t] = "bget_unlock" => NilReturn(t)'
         /\ pc[t] = "bread_ret" => pc'[t] = "idle" /\ held'[t] = held[t]]_vars

C5_Witness ==
  \E t \in Threads : NilReturn(t) /\ AllPinned

(***************************************************************************)
(* C6: when the device read inside bread fails, bread returns NULL with    *)
(* the buffer lock released and no pin left: if no other thread has the    *)
(* buffer, its refcnt is 0.  Refuted: refcnt stays 1.                      *)
(***************************************************************************)
C6_FailedReadLeavesNoPin ==
  \A t \in Threads :
    FailedReturn(t) =>
      /\ lock[b[t]] # t
      /\ Outstanding(b[t]) = {} => refcnt[b[t]] = 0

(***************************************************************************)
(* C7: refcnt is the number of bread calls that returned the buffer minus  *)
(* the number of brelse calls on it.  Stated for the states in which no    *)
(* bread or brelse on the buffer is under way; refuted by the pin a failed *)
(* read leaves.                                                            *)
(***************************************************************************)
C7_RefcntIsReturnsMinusReleases ==
  \A x \in Bufs :
    InBread(x) = {} /\ InBrelse(x) = {} /\ (\A t \in Threads : pc[t] # "bget_scan")
      => refcnt[x] = Cardinality(Holders(x))

(***************************************************************************)
(* C8: a bwrite called by the thread that owns the buffer's lock issues    *)
(* exactly one device write and returns whether that write succeeded.      *)
(***************************************************************************)
C8_BwriteWritesOnce ==
  \A t \in Threads :
    pc[t] = "bwrite_ret" /\ hadlock[t] => nwrite[t] = 1 /\ wret[t] = success[t]

(***************************************************************************)
(* C9: the unused buffers stand in the list in the order of their last     *)
(* final release, latest first, the never released ones last; a miss of    *)
(* bget takes the unused buffer nearest head.prev; and NBUF + 1 rounds     *)
(* bread; brelse on distinct blocks, run serially on a fresh cache, all    *)
(* succeed, the last one reusing the buffer of the first.                  *)
(***************************************************************************)
C9_LRUOrdered ==
  LET z == UnusedInList
      r == SelectSeq(relorder, BufUnused)
  IN  /\ Len(r) <= Len(z)
      /\ SubSeq(z, 1, Len(r)) = r
      /\ \A i \in (Len(r) + 1)..Len(z) : z[i] \notin Range(relorder)

C9_MissTakesLRU ==
  \A t \in Threads :
    /\ pc[t] = "bget_scan" /\ pc'[t] # pc[t]
    /\ \A x \in Bufs : ~BufMatches(x, a_dev[t], a_blockno[t])
    /\ UnusedInList # <<>>
    => b'[t] = UnusedInList[Len(UnusedInList)]

C9_SerialReuse ==
  Serial /\ clean /\ pc[1] = "bread_ret" =>
    /\ ret[1] # NULL
    /\ ncalls = NBUF + 1 => ret[1] = firstbuf

C9_LRUDiscipline ==
  /\ []C9_LRUOrdered
  /\ [][C9_MissTakesLRU]_vars
  /\ []C9_SerialReuse

C9_Witness ==
  /\ Serial /\ clean /\ pc[1] = "bread_ret"
  /\ ncalls = NBUF + 1
  /\ ret[1] = firstbuf /\ ret[1] # NULL
  /\ blockno[ret[1]] = a_blockno[1] /\ valid[ret[1]]

(***************************************************************************)
(* C10: for a single thread with a working device, bread(dev, blockno);    *)
(* brelse performed twice in a row leaves every buffer's dev, blockno,     *)
(* valid, refcnt and lock as performing it once does.                      *)
(***************************************************************************)
C10_BreadBrelseIdempotent ==
  rnd.n = 2 => CacheState = rnd.snap

C10_Witness ==
  /\ rnd.n = 2
  /\ pc[1] = "idle"
  /\ \E x \in Bufs : valid[x] /\ <<dev[x], blockno[x]>> = rnd.req /\ refcnt[x] = 0

(***************************************************************************)
(* The functions of mklfs.c as operators on a record s of the builder's    *)
(* globals.  s.err is "" while the builder runs and names the reason once  *)
(* it has stopped inside the call: "io" (a system call failed or a read    *)
(* came back short, perror and exit(1)), "assert" (a failed assert) and    *)
(* "fault" (the process was killed at an out-of-bounds store).  s.fault    *)
(* counts the sector transfers that still succeed before one fails; a      *)
(* negative count never fails.  s.ret, s.buf, s.din, s.ind, s.x and s.off  *)
(* hold return values and the locals of the running function.              *)
(***************************************************************************)
Faults == NULL..1

Cur(f) ==
  [disk |-> disk, fsize |-> fsize, imp |-> imp, oob |-> oob,
   imp_block_no |-> imp_block_no, freeinode |-> freeinode,
   freeblock |-> freeblock, allocs |-> allocs, mon |-> mon, hi |-> hi,
   ioerr |-> ioerr, fault |-> f, err |-> "", ret |-> 0, buf |-> ZeroBlock,
   din |-> ZeroDinode, ind |-> AsIndirect(ZeroBlock), x |-> 0, off |-> 0]

(* Bind(v, F) is F(v), with v evaluated once.                              *)
Bind(v, F(_)) == CHOOSE r \in {F(x) : x \in {v}} : TRUE

(* lseek and write of one block; a write past the end extends the file.    *)
wsect(st, sec, blk) ==
  Bind(st, LAMBDA s :
    IF s.err # "" THEN s
    ELSE IF s.fault = 0
    THEN [s EXCEPT !.err = "io", !.ioerr = @ \cup {"write"}]
    ELSE [s EXCEPT !.disk = IF sec < s.fsize THEN [@ EXCEPT ![sec] = blk]
                            ELSE [k \in 0..sec |->
                                    IF k = sec THEN blk
                                    ELSE IF k < s.fsize THEN s.disk[k] ELSE ZeroBlock],
                   !.fsize = IF sec < @ THEN @ ELSE sec + 1,
                   !.hi = IF sec >= FSSIZE THEN @ \cup {sec} ELSE @,
                   !.fault = @ - 1])

(* lseek and read of one block into s.buf, to be used as a block of the    *)
(* given kind; a read at or past the end of the file comes back short.     *)
rsect(st, sec, kind) ==
  Bind(st, LAMBDA s :
    IF s.err # "" THEN s
    ELSE IF s.fault = 0
    THEN [s EXCEPT !.err = "io", !.ioerr = @ \cup {"read"}]
    ELSE IF sec >= s.fsize
    THEN [s EXCEPT !.err = "io"]
    ELSE [s EXCEPT !.buf = s.disk[sec],
                   !.mon.typed = @ /\ s.disk[sec].kind \in {"zeroes", kind},
                   !.fault = @ - 1])

(* The slot of block fb in the summary block bn of its segment.            *)
SummarySlotNext(fb, bn) == fb - bn
SummarySlot(fb, bn) == fb - bn - 1

(* Every block balloc has returned so far carries its summary entry.       *)
Summarised(d, n, a) ==
  LET bn == NMETA + SEGNO(a.b) * SEGSIZE
  IN /\ bn < n
     /\ d[bn].kind = "dsegsum"
     /\ d[bn].entry[a.b - bn - 1] =
          [block_type |-> a.block_type, inum |-> a.inum, block_no |-> a.block_no]

AllSummarised(d, n, al) == \A k \in 1..Len(al) : Summarised(d, n, al[k])

(* if ((freeblock - NMETA) % SEGSIZE == 0): freeblock names the summary    *)
(* block of its segment; the variant tests the last block of a segment.    *)
AtSummaryLast(fb) == (fb - NMETA) % SEGSIZE = SEGSIZE - 1
AtSummary(fb) == (fb - NMETA) % SEGSIZE = 0

(* return freeblock++; the variant returns freeblock and leaves it.        *)
PastBlockSame(fb) == fb
PastBlock(fb) == fb + 1

balloc(st, block_type, inum, block_no) ==
  Bind(st, LAMBDA s :
    IF s.err # "" THEN s
    ELSE
      LET fb == IF AtSummary(s.freeblock)
                THEN s.freeblock + 1 ELSE s.freeblock
          segnum == SEGNO(fb)
          bn == NMETA + segnum * SEGSIZE
          entry == [block_type |-> block_type, inum |-> inum, block_no |-> block_no]
      IN Bind(rsect([s EXCEPT !.freeblock = fb,
                              !.mon.summary =
                                 @ /\ AllSummarised(s.disk, s.fsize, s.allocs)],
                    bn, "dsegsum"), LAMBDA s1 :
         Bind(wsect(s1, bn, SegsumBlock([AsSegsum(s1.buf) EXCEPT
                                           ![SummarySlot(fb, bn)] = entry])),
              LAMBDA s2 :
           IF s2.err # "" THEN s2
           ELSE [s2 EXCEPT !.ret = fb, !.freeblock = PastBlock(fb),
                           !.allocs = Append(@, [b |-> fb] @@ entry)])))

(* IBLOCK(i, imp) is imp[i]; past the end of imp it reads what the store   *)
(* of ialloc left there.                                                   *)
IBLOCK(s, inum) == IF inum < NINODES THEN s.imp[inum] ELSE s.oob[inum]

winode(st, inum, ip) ==
  Bind(st, LAMBDA s :
    wsect(rsect(s, IBLOCK(s, inum), "dinode"), IBLOCK(s, inum), InodeBlock(ip)))

rinode(st, inum) ==
  Bind(st, LAMBDA s :
    Bind(rsect(s, IBLOCK(s, inum), "dinode"), LAMBDA s1 :
      IF s1.err # "" THEN s1 ELSE [s1 EXCEPT !.din = AsDinode(s1.buf)]))

(* ialloc stores into imp[inum] without a bound on inum.  Past the end of  *)
(* imp the store is undefined: it lands in memory that IBLOCK reads back   *)
(* (ub = "lands") or the process is killed (ub = "killed").                *)
UBOutcomes == {"lands", "killed"}

(* uint inum = freeinode++; the variant increments first.                  *)
FreshInumPre(s) == s.freeinode + 1
FreshInum(s) == s.freeinode

ialloc(st, type, ub) ==
  Bind(st, LAMBDA s :
    IF s.err # "" THEN s
    ELSE
      LET inum == FreshInum(s)
          din == [ZeroDinode EXCEPT !.type = type, !.nlink = 1]
      IN Bind(balloc([s EXCEPT !.freeinode = @ + 1], SEGSUM_INODE, inum, 0),
              LAMBDA s1 :
         Bind(winode(IF s1.err # "" THEN s1
                     ELSE IF inum < NINODES THEN [s1 EXCEPT !.imp[inum] = s1.ret]
                     ELSE IF ub = "lands" THEN [s1 EXCEPT !.oob[inum] = s1.ret]
                     ELSE [s1 EXCEPT !.err = "fault"],
                     inum, din), LAMBDA s2 :
           IF s2.err # "" THEN s2 ELSE [s2 EXCEPT !.ret = inum])))

RECURSIVE wimap_loop(_, _)
wimap_loop(st, i) ==
  Bind(st, LAMBDA s :
    IF s.err # "" \/ i >= NINODEMAP THEN s
    ELSE
      LET addr == [j \in 0..(NENTRY - 1) |->
                     IF i * NENTRY + j < NINODES THEN s.imp[i * NENTRY + j] ELSE 0]
      IN Bind(balloc(s, SEGSUM_IMAP, 0, i), LAMBDA s1 :
           wimap_loop(
             wsect(IF s1.err # "" THEN s1 ELSE [s1 EXCEPT !.imp_block_no[i] = s1.ret],
                   s1.ret, ImapBlock(addr)),
             i + 1)))

wimap(s) == wimap_loop(s, 0)

(* The contents of a checkpoint block; the variant stamps both of them.    *)
\* Variant: the number of segments is rounded down.
used_segment_floor(s) == (s.freeblock - NMETA) \div SEGSIZE

used_segment(s) == (s.freeblock - NMETA + SEGSIZE - 1) \div SEGSIZE

(* The bits the loop of wchkpt leaves in segtable[]: bit i of the loop is   *)
(* stored in segtable[i / 8], and the array has SEGTABLEBITS bits.  A store *)
(* at a larger i lands behind the array, in the timestamp that is assigned  *)
(* afterwards or in the rest of the sector buffer, and is no bit of the     *)
(* table.                                                                   *)
segtable_bits(s) == {i \in 0..(used_segment(s) - 1) : i < SEGTABLEBITS}

CheckpointBothStamped(s, chkpt_no) ==
  ChkptBlock(s.imp_block_no, segtable_bits(s), 1)

Checkpoint(s, chkpt_no) ==
  IF chkpt_no = 1
  THEN ChkptBlock(s.imp_block_no, segtable_bits(s), 1)
  ELSE ZeroBlock

\* Variant: the imap blocks are written once more after the checkpoint.
wchkpt_then_wimap(st, chkpt_no) ==
  wimap(Bind(st, LAMBDA s : wsect(s, 1 + chkpt_no, Checkpoint(s, chkpt_no))))

wchkpt(st, chkpt_no) ==
  Bind(st, LAMBDA s : wsect(s, 1 + chkpt_no, Checkpoint(s, chkpt_no)))

min(x, y) == IF x < y THEN x ELSE y

(* The guards of iappend's loop body, each with an off-by-one variant.     *)
FbnInRangeStrict(fbn) == fbn + 1 < MAXFILE
FbnInRange(fbn) == fbn < MAXFILE
IsDirectIncl(fbn) == fbn <= NDIRECT
IsDirect(fbn) == fbn < NDIRECT

iappend_direct(st, inum, fbn) ==
  Bind(st, LAMBDA s :
    Bind(IF s.din.addrs[fbn] = 0
         THEN Bind(balloc(s, SEGSUM_DATA, inum, fbn), LAMBDA a :
                [a EXCEPT !.din.addrs[fbn] = a.ret])
         ELSE s, LAMBDA s1 :
      [s1 EXCEPT !.x = s1.din.addrs[fbn]]))

iappend_indirect(st, inum, fbn) ==
  Bind(st, LAMBDA s :
    Bind(IF s.din.addrs[NDIRECT] = 0
         THEN Bind(balloc(s, SEGSUM_INDIRECT, inum, 0), LAMBDA a :
                [a EXCEPT !.din.addrs[NDIRECT] = a.ret])
         ELSE s, LAMBDA s1 :
    Bind(rsect(s1, s1.din.addrs[NDIRECT], "indirect"), LAMBDA s2 :
    Bind(AsIndirect(s2.buf), LAMBDA indirect :
    Bind(IF s2.err = "" /\ indirect[fbn - NDIRECT] = 0
         THEN Bind(balloc(s2, SEGSUM_DATA, inum, fbn), LAMBDA a :
                [wsect(a, a.din.addrs[NDIRECT],
                       IndirectBlock([indirect EXCEPT ![fbn - NDIRECT] = a.ret]))
                   EXCEPT !.ind = [indirect EXCEPT ![fbn - NDIRECT] = a.ret]])
         ELSE [s2 EXCEPT !.ind = indirect], LAMBDA s3 :
      [s3 EXCEPT !.x = s3.ind[fbn - NDIRECT]])))))

RECURSIVE iappend_loop(_, _, _)
iappend_loop(st, inum, xp) ==
  Bind(st, LAMBDA s : Bind(xp, LAMBDA p :
    IF s.err # "" \/ Len(p) = 0 THEN s
    ELSE
      LET fbn == s.off \div BSIZE
          n1 == min(Len(p), (fbn + 1) * BSIZE - s.off)
          at == s.off - fbn * BSIZE
      IN IF ~FbnInRange(fbn) THEN [s EXCEPT !.err = "assert"]
         ELSE
           Bind(IF IsDirect(fbn) THEN iappend_direct(s, inum, fbn)
                ELSE iappend_indirect(s, inum, fbn), LAMBDA s1 :
           Bind(rsect(s1, s1.x, "data"), LAMBDA s2 :
           Bind(wsect(s2, s2.x,
                      DataBlock([k \in 0..(BSIZE - 1) |->
                                   IF k >= at /\ k < at + n1 THEN p[k - at + 1]
                                   ELSE AsData(s2.buf)[k]])), LAMBDA s3 :
             IF s3.err # "" THEN s3
             ELSE iappend_loop([s3 EXCEPT !.off = @ + n1], inum,
                               SubSeq(p, n1 + 1, Len(p))))))))

iappend(st, inum, p) ==
  Bind(rinode(st, inum), LAMBDA s1 :
    Bind(iappend_loop([s1 EXCEPT !.off = s1.din.size], inum, p), LAMBDA s2 :
      winode(IF s2.err # "" THEN s2 ELSE [s2 EXCEPT !.din.size = s2.off],
             inum, IF s2.err # "" THEN s2.din ELSE [s2.din EXCEPT !.size = s2.off])))

(***************************************************************************)
(* main of mklfs.c, one action per statement group.  The command line has  *)
(* up to MaxFiles input files; input file f is hostlen cells long, cell o  *)
(* being HostCell(f, o).                                                   *)
(***************************************************************************)
Lens == {1, NDIRECT * BSIZE, NDIRECT * BSIZE + 1,
         MAXFILE * BSIZE, MAXFILE * BSIZE + 1}

ExitStatus(e) == CASE e = "io" -> 1 [] e = "assert" -> 134 [] OTHER -> 139

Store(s) ==
  /\ disk' = s.disk
  /\ fsize' = s.fsize
  /\ imp' = s.imp
  /\ oob' = s.oob
  /\ imp_block_no' = s.imp_block_no
  /\ freeinode' = s.freeinode
  /\ freeblock' = s.freeblock
  /\ allocs' = s.allocs
  /\ mon' = s.mon
  /\ hi' = s.hi
  /\ ioerr' = s.ioerr

(* Go on at position p, or leave the program if the call has stopped it.   *)
Goto(st, p) ==
  \E s \in {st} :
    /\ Store(s)
    /\ mpc' = IF s.err = "" THEN p ELSE "exited"
    /\ exitcode' = IF s.err = "" THEN exitcode ELSE ExitStatus(s.err)

Running == workload = "mklfs" /\ exitcode = NULL

main_open ==
  /\ Running /\ mpc = "main"
  /\ \E ok \in BOOLEAN :
       IF ok
       THEN /\ mpc' = "zero"
            /\ freeblock' = NMETA
            /\ UNCHANGED <<exitcode, ioerr>>
       ELSE /\ mpc' = "exited"
            /\ exitcode' = 1
            /\ ioerr' = ioerr \cup {"open"}
            /\ UNCHANGED freeblock
  /\ UNCHANGED <<disk, fsize, imp, oob, imp_block_no, freeinode, rootino,
                 m_inum, nfile, hostlen, rdoff, allocs, hosts, mon, hi,
                 workload, cachevars>>

RECURSIVE zero_loop(_, _)
zero_loop(st, i) ==
  Bind(st, LAMBDA s :
    IF s.err # "" \/ i >= FSSIZE THEN s ELSE zero_loop(wsect(s, i, ZeroBlock), i + 1))

main_zero ==
  /\ Running /\ mpc = "zero"
  /\ \E f \in Faults :
       Goto([zero_loop(Cur(f), 0) EXCEPT !.imp = [k \in 0..(NINODES - 1) |-> 0]],
            "super")
  /\ UNCHANGED <<rootino, m_inum, nfile, hostlen, rdoff, hosts, workload, cachevars>>

main_super ==
  /\ Running /\ mpc = "super"
  /\ \E f \in Faults : Goto(wsect(Cur(f), 1, SuperBlock), "root")
  /\ UNCHANGED <<rootino, m_inum, nfile, hostlen, rdoff, hosts, workload, cachevars>>

main_root ==
  /\ Running /\ mpc = "root"
  /\ \E f \in Faults, ub \in UBOutcomes :
       \E s \in {ialloc(Cur(f), T_DIR, ub)} :
          /\ Goto(IF s.err = "" /\ s.ret # ROOTINO
                  THEN [s EXCEPT !.err = "assert"] ELSE s, "dot")
          /\ rootino' = IF s.err = "" THEN s.ret ELSE rootino
  /\ UNCHANGED <<m_inum, nfile, hostlen, rdoff, hosts, workload, cachevars>>

main_dot ==
  /\ Running /\ mpc = "dot"
  /\ \E f \in Faults :
       Goto(iappend(Cur(f), rootino, <<Dirent(rootino, 0)>>), "dotdot")
  /\ UNCHANGED <<rootino, m_inum, nfile, hostlen, rdoff, hosts, workload, cachevars>>

main_dotdot ==
  /\ Running /\ mpc = "dotdot"
  /\ \E f \in Faults :
       Goto(iappend(Cur(f), rootino, <<Dirent(rootino, 1)>>), "args")
  /\ UNCHANGED <<rootino, m_inum, nfile, hostlen, rdoff, hosts, workload, cachevars>>

main_file_open ==
  /\ Running /\ mpc = "args" /\ nfile < MaxFiles
  /\ \E ok \in BOOLEAN, len \in Lens :
       IF ok
       THEN /\ mpc' = "ialloc"
            /\ hostlen' = len
            /\ rdoff' = 0
            /\ UNCHANGED <<exitcode, ioerr>>
       ELSE /\ mpc' = "exited"
            /\ exitcode' = 1
            /\ ioerr' = ioerr \cup {"open"}
            /\ UNCHANGED <<hostlen, rdoff>>
  /\ UNCHANGED <<mkglobals, rootino, m_inum, nfile, allocs, hosts, mon, hi,
                 workload, cachevars>>

main_file_ialloc ==
  /\ Running /\ mpc = "ialloc"
  /\ \E f \in Faults, ub \in UBOutcomes :
       \E s \in {ialloc(Cur(f), T_FILE, ub)} :
          /\ Goto(s, "dirent")
          /\ m_inum' = IF s.err = "" THEN s.ret ELSE m_inum
          /\ hosts' = IF s.err = ""
                      THEN Append(hosts, [inum |-> s.ret, len |-> hostlen])
                      ELSE hosts
  /\ UNCHANGED <<rootino, nfile, hostlen, rdoff, workload, cachevars>>

main_file_dirent ==
  /\ Running /\ mpc = "dirent"
  /\ \E f \in Faults :
       Goto(iappend(Cur(f), rootino, <<Dirent(m_inum, 2 + nfile)>>), "read")
  /\ UNCHANGED <<rootino, m_inum, nfile, hostlen, rdoff, hosts, workload, cachevars>>

(* read returned cc > 0 cells of the input file: the loop body runs.       *)
main_file_read ==
  /\ Running /\ mpc = "read"
  /\ \E f \in Faults, cc \in 1..BSIZE :
       /\ cc <= hostlen - rdoff
       /\ Goto(iappend(Cur(f), m_inum,
                       [k \in 1..cc |-> HostCell(nfile + 1, rdoff + k - 1)]), "read")
       /\ rdoff' = rdoff + cc
  /\ UNCHANGED <<rootino, m_inum, nfile, hostlen, hosts, workload, cachevars>>

(* read returned 0 at the end of the input file, or -1: the loop ends.     *)
(* At most one read of an input file fails in a run.                       *)
main_file_read_end ==
  /\ Running /\ mpc = "read"
  /\ \E cc \in {0, -1} :
       /\ cc = 0 => rdoff = hostlen
       /\ cc < 0 => "read input" \notin ioerr
       /\ ioerr' = IF cc < 0 THEN ioerr \cup {"read input"} ELSE ioerr
  /\ mpc' = "close"
  /\ UNCHANGED <<mkglobals, rootino, m_inum, nfile, hostlen, rdoff, exitcode,
                 allocs, hosts, mon, hi, workload, cachevars>>

main_file_close ==
  /\ Running /\ mpc = "close"
  /\ nfile' = nfile + 1
  /\ mpc' = "args"
  /\ UNCHANGED <<mkglobals, rootino, m_inum, hostlen, rdoff, exitcode,
                 mkghosts, workload, cachevars>>

(* The size the root directory is given at the end.                        *)
RoundedUp(off) == ((off \div BSIZE) + 1) * BSIZE

main_fixroot ==
  /\ Running /\ mpc = "args"
  /\ \E f \in Faults :
       \E s1 \in {rinode(Cur(f), rootino)} :
          Goto(winode(s1, rootino, [s1.din EXCEPT !.size = RoundedUp(s1.din.size)]),
               "wimap")
  /\ UNCHANGED <<rootino, m_inum, nfile, hostlen, rdoff, hosts, workload, cachevars>>

main_wimap ==
  /\ Running /\ mpc = "wimap"
  /\ \E f \in Faults : Goto(wimap(Cur(f)), "wchkpt1")
  /\ UNCHANGED <<rootino, m_inum, nfile, hostlen, rdoff, hosts, workload, cachevars>>

main_wchkpt1 ==
  /\ Running /\ mpc = "wchkpt1"
  /\ \E f \in Faults : Goto(wchkpt(Cur(f), 1), "wchkpt2")
  /\ UNCHANGED <<rootino, m_inum, nfile, hostlen, rdoff, hosts, workload, cachevars>>

main_wchkpt2 ==
  /\ Running /\ mpc = "wchkpt2"
  /\ \E f \in Faults : Goto(wchkpt(Cur(f), 2), "exit")
  /\ UNCHANGED <<rootino, m_inum, nfile, hostlen, rdoff, hosts, workload, cachevars>>

main_exit ==
  /\ Running /\ mpc = "exit"
  /\ mpc' = "exited"
  /\ exitcode' = 0
  /\ UNCHANGED <<mkglobals, rootino, m_inum, nfile, hostlen, rdoff, mkghosts,
                 workload, cachevars>>

MkInit == InitCache /\ MkStart /\ workload = "mklfs"

MkNext ==
  \/ main_open \/ main_zero \/ main_super \/ main_root \/ main_dot
  \/ main_dotdot \/ main_file_open \/ main_file_ialloc \/ main_file_dirent
  \/ main_file_read \/ main_file_read_end \/ main_file_close \/ main_fixroot
  \/ main_wimap \/ main_wchkpt1 \/ main_wchkpt2 \/ main_exit

MkSpec == MkInit /\ [][MkNext]_vars

(***************************************************************************)
(* Vocabulary for the claims about the image builder.                      *)
(***************************************************************************)
Finished == mpc = "exited" /\ exitcode = 0
Aborted == mpc = "exited" /\ exitcode # 0
AllocTypes == {allocs[k].block_type : k \in 1..Len(allocs)}

(* C11: every block b that balloc has returned has, in the summary block   *)
(* NMETA + ((b - NMETA) / SEGSIZE) * SEGSIZE of its segment, at entry      *)
(* b - summary block - 1, exactly the (block_type, inum, block_no) of the  *)
(* call; this is so in every state of the build and was so whenever a      *)
(* further balloc started.                                                 *)
C11_SummaryMatchesAllocation ==
  /\ mon.summary
  /\ AllSummarised(disk, fsize, allocs)

C11_Witness ==
  /\ Finished
  /\ Len(allocs) > 2 * (SEGSIZE - 1)
  /\ AllocTypes = {SEGSUM_INODE, SEGSUM_DATA, SEGSUM_INDIRECT, SEGSUM_IMAP}

(* Reading the finished image the way a reader of the file system does.    *)
AsImap(blk) ==
  IF blk.kind = "dimap" THEN blk.addr ELSE [k \in 0..(NENTRY - 1) |-> 0]
AsChkptImap(blk) ==
  IF blk.kind = "checkpoint" THEN blk.imap ELSE [k \in 0..(NINODEMAP - 1) |-> 0]
Block(k) == IF k < fsize THEN disk[k] ELSE ZeroBlock

(* The block the imap of checkpoint 1 gives for inode i; 0 if there is     *)
(* none.                                                                   *)
ImapLookup(i) ==
  IF i \div NENTRY < NINODEMAP
  THEN AsImap(Block(AsChkptImap(Block(2))[i \div NENTRY]))[i % NENTRY]
  ELSE 0

(* The inode numbers ialloc has returned.                                  *)
Allocated == 1..(freeinode - 1)

InImap(i) ==
  /\ Summarised(disk, fsize, [b |-> ImapLookup(i), block_type |-> SEGSUM_INODE,
                              inum |-> i, block_no |-> 0])
  /\ AsDinode(Block(ImapLookup(i))).type # 0

(* C12: in the finished image, for every inode number i that ialloc has    *)
(* allocated, entry i % NENTRY of the imap block that checkpoint 1 names   *)
(* at imap[i / NENTRY] is a block whose summary entry is (INODE, i, 0) and *)
(* whose dinode has a nonzero type.                                        *)
C12_ImapReachesEveryInode == Finished => \A i \in Allocated : InImap(i)

(* The dinode of inode i as the builder finds it, and cell o of a file     *)
(* found by following addrs[] and the indirect block.                      *)
DinodeOf(i) == AsDinode(Block(IF i < NINODES THEN imp[i] ELSE oob[i]))

BlockOfFbn(din, fbn) ==
  IF fbn < NDIRECT THEN din.addrs[fbn]
  ELSE AsIndirect(Block(din.addrs[NDIRECT]))[fbn - NDIRECT]

CellAt(din, o) == AsData(Block(BlockOfFbn(din, o \div BSIZE)))[o % BSIZE]

(* Input file k of the command line has been streamed and closed.          *)
Streamed == 1..nfile

(* C13: for every input file that has been streamed, the size of its inode *)
(* equals the length of the host file, and for every offset o below that   *)
(* size the cell found through addrs[o / BSIZE], or through the indirect   *)
(* block for o / BSIZE >= NDIRECT, at position o % BSIZE is the host       *)
(* file's cell o; appends to the root directory and to later files do not  *)
(* disturb it.                                                             *)
C13_FileContentsMatchHost ==
  \A k \in Streamed :
    LET din == DinodeOf(hosts[k].inum)
    IN /\ din.size = hosts[k].len
       /\ \A o \in 0..(din.size - 1) : CellAt(din, o) = HostCell(k, o)

Timestamp(blk) == IF blk.kind = "checkpoint" THEN blk.timestamp ELSE 0

(* C14: in the finished image block 2, checkpoint 1, has time stamp 1 and  *)
(* block 3, checkpoint 2, is all zeroes, time stamp 0 included, so that    *)
(* checkpoint 1 alone has the larger time stamp.                           *)
C14_CheckpointOneIsNewer ==
  Finished =>
    /\ Block(2).kind = "checkpoint"
    /\ Timestamp(Block(2)) = 1
    /\ Block(3) = ZeroBlock
    /\ Timestamp(Block(3)) = 0
    /\ Timestamp(Block(2)) > Timestamp(Block(3))

C14_Witness ==
  /\ Finished
  /\ nfile > 0
  /\ Block(2).imap = imp_block_no
  /\ \A k \in 0..(NINODEMAP - 1) : imp_block_no[k] # 0

(* C15: balloc never returns a block number at or beyond FSSIZE and the    *)
(* builder never writes a block at or beyond FSSIZE.                       *)
C15_NoAllocationPastEnd ==
  /\ \A k \in 1..Len(allocs) : allocs[k].b < FSSIZE
  /\ hi = {}

(* C16: ialloc never returns an inode number at or beyond NINODES and      *)
(* never stores into imp[] at an index at or beyond NINODES: no input file *)
(* has such an inode number, nothing was left past the end of imp, and the *)
(* process was not killed at such a store.                                 *)
C16_IallocBounded ==
  /\ \A k \in 1..Len(hosts) : hosts[k].inum < NINODES
  /\ \A k \in DOMAIN oob : oob[k] = 0
  /\ exitcode # ExitStatus("fault")

(* The exit status of a failed assert.                                     *)
AssertFailed == exitcode = ExitStatus("assert")

(* Every dinode in the image, whatever points to it.                       *)
Dinodes == {disk[k].din : k \in {j \in 0..(fsize - 1) : disk[j].kind = "dinode"}}

(* C17: streaming an input file of exactly MAXFILE * BSIZE cells does not  *)
(* stop the build (an assert fails only while a longer file is streamed),  *)
(* and an iappend that would write a cell at an offset of MAXFILE * BSIZE  *)
(* or more stops the build before anything is allocated or written for     *)
(* that cell: once cells past that offset were handed to iappend the       *)
(* builder has left with a nonzero status, no data block is ever allocated *)
(* for a file block MAXFILE or beyond, and no inode ever has a larger      *)
(* size.                                                                   *)
C17_MaxFileBoundary ==
  /\ AssertFailed => hostlen > MAXFILE * BSIZE /\ rdoff > MAXFILE * BSIZE
  /\ rdoff > MAXFILE * BSIZE => Aborted
  /\ \A k \in 1..Len(allocs) :
       allocs[k].block_type = SEGSUM_DATA => allocs[k].block_no < MAXFILE
  /\ \A din \in Dinodes : din.size <= MAXFILE * BSIZE

C17_Witness ==
  /\ Finished
  /\ nfile = 1
  /\ hosts[1].len = MAXFILE * BSIZE
  /\ DinodeOf(hosts[1].inum).size = MAXFILE * BSIZE
  /\ \A fbn \in 0..(MAXFILE - 1) : BlockOfFbn(DinodeOf(hosts[1].inum), fbn) # 0

(* C18: once an open, read, write or lseek of the build has failed, the    *)
(* builder has left with a nonzero exit status; it does not go on and it   *)
(* never finishes with exit code 0.                                        *)
C18_IOErrorsAreFatal == ioerr # {} => Aborted

(* The nonzero entries of the indirect block of a dinode, none if it has   *)
(* no indirect block; and the blocks a file of the given size needs.       *)
IndirectEntries(din) ==
  IF din.addrs[NDIRECT] = 0 THEN {}
  ELSE {k \in 0..(NINDIRECT - 1) : AsIndirect(Block(din.addrs[NDIRECT]))[k] # 0}

BlocksFor(size) == (size + BSIZE - 1) \div BSIZE

IndirectNeeded(size) ==
  IF BlocksFor(size) > NDIRECT THEN BlocksFor(size) - NDIRECT ELSE 0

(* C19: while the builder runs and in the finished image, every dinode of  *)
(* type T_FILE has a nonzero addrs[NDIRECT] exactly if its size is above   *)
(* NDIRECT * BSIZE, and its indirect block has exactly                     *)
(* max(0, ceil(size / BSIZE) - NDIRECT) nonzero entries.                   *)
C19_IndirectIffLarge ==
  ~Aborted =>
    \A din \in Dinodes :
      din.type = T_FILE =>
        /\ din.addrs[NDIRECT] # 0 <=> din.size > NDIRECT * BSIZE
        /\ Cardinality(IndirectEntries(din)) = IndirectNeeded(din.size)

C19_Witness ==
  /\ Finished
  /\ nfile = 2
  /\ ioerr = {}
  /\ DinodeOf(hosts[1].inum).size = NDIRECT * BSIZE
  /\ DinodeOf(hosts[1].inum).addrs[NDIRECT] = 0
  /\ DinodeOf(hosts[2].inum).size = NDIRECT * BSIZE + 1
  /\ Cardinality(IndirectEntries(DinodeOf(hosts[2].inum))) = 1

(* The size of the root directory before main rounds it, in cells: "."    *)
(* and ".." and one entry per input file that was given an inode.          *)
Unrounded == Len(hosts) + Len(<<Dirent(ROOTINO, 0), Dirent(ROOTINO, 1)>>)

(* C20: in the finished image the size of the root directory is a multiple *)
(* of BSIZE that is not smaller than the unrounded size, and every file    *)
(* block index below size / BSIZE of the root directory has a nonzero      *)
(* block pointer.                                                          *)
C20_RootFullyBacked ==
  Finished =>
    LET din == DinodeOf(rootino)
    IN /\ din.size % BSIZE = 0
       /\ din.size >= Unrounded
       /\ \A fbn \in 0..((din.size \div BSIZE) - 1) : BlockOfFbn(din, fbn) # 0

(* Entry k of the root directory, and the entry main appends as number k:  *)
(* "." and ".." name the root, entry j + 1 names input file j.             *)
RootEntry(k) == CellAt(DinodeOf(ROOTINO), k)
ExpectedEntry(k) == IF k < 2 THEN Dirent(ROOTINO, k) ELSE Dirent(k, k)

(* C21: the inode numbers ialloc returns are 1, 2, ..., k + 1 in this      *)
(* order: the root directory is inode ROOTINO = 1 of type T_DIR, input     *)
(* file j has inode j + 1 of type T_FILE with nlink 1, every entry the     *)
(* root directory holds is "." or ".." with inum 1 at index 0 and 1 and    *)
(* the entry of file j with inum j + 1 at index j + 1, and the finished    *)
(* image holds all of them.                                                *)
C21_InodeNumbersInOrder ==
  /\ rootino # 0 =>
       /\ rootino = ROOTINO
       /\ DinodeOf(ROOTINO).type = T_DIR
       /\ DinodeOf(ROOTINO).nlink = 1
  /\ freeinode = (IF rootino # 0 THEN 1 ELSE 0) + Len(hosts) + 1
       \/ mpc = "exited"
  /\ \A j \in 1..Len(hosts) :
       /\ hosts[j].inum = j + 1
       /\ DinodeOf(j + 1).type = T_FILE
       /\ DinodeOf(j + 1).nlink = 1
  /\ \A k \in 0..(Unrounded - 1) :
       k < DinodeOf(ROOTINO).size => RootEntry(k) = ExpectedEntry(k)
  /\ Finished => DinodeOf(ROOTINO).size >= Unrounded

C21_Witness ==
  /\ Finished
  /\ Len(hosts) = 2
  /\ RootEntry(2) = Dirent(2, 2)
  /\ RootEntry(3) = Dirent(3, 3)
  /\ DinodeOf(3).type = T_FILE

(* The block numbers balloc has returned, in call order.                   *)
Returned == [k \in 1..Len(allocs) |-> allocs[k].b]

(* C22: balloc never returns a summary block or a metadata block: every    *)
(* block number b it has returned satisfies b > NMETA and                  *)
(* (b - NMETA) % SEGSIZE # 0.                                              *)
C22_NeverSummaryOrMeta ==
  \A k \in 1..Len(allocs) :
    /\ Returned[k] > NMETA
    /\ (Returned[k] - NMETA) % SEGSIZE # 0

(* An allocation that skipped over the summary block of a later segment.   *)
C22_Witness ==
  \E k \in 1..Len(allocs) :
    /\ Returned[k] = NMETA + SEGSIZE + 1
    /\ k > 1
    /\ Returned[k - 1] = NMETA + SEGSIZE - 1

(* C23: successive balloc calls return strictly increasing block numbers:  *)
(* freeblock never decreases and is at least NMETA at every call of        *)
(* balloc, every number balloc returns is at least the freeblock it found, *)
(* below the freeblock it leaves and above every number returned before    *)
(* it, so no number is returned twice and the blocks of a segment are      *)
(* allocated in increasing order.                                          *)
C23_StrictlyIncreasing ==
  [][/\ freeblock' >= freeblock
     /\ \A k \in 1..Len(allocs') :
          /\ Returned'[k] < freeblock'
          /\ k > 1 => Returned'[k - 1] < Returned'[k]
     /\ Len(allocs') > Len(allocs) =>
          /\ freeblock >= NMETA
          /\ SubSeq(allocs', 1, Len(allocs)) = allocs
          /\ \A k \in (Len(allocs) + 1)..Len(allocs') :
               Returned'[k] >= freeblock]_vars

C23_Witness ==
  /\ Len(allocs) >= 3
  /\ SEGNO(Returned[2]) = SEGNO(Returned[3])
  /\ Returned[2] + 1 = Returned[3]

(***************************************************************************)
(* Locking discipline of the cache.                                        *)
(***************************************************************************)
\* t is inside virtio_disk_rw.
InDeviceCall(t) == pc[t] \in {"bread_rw", "bwrite_rw"}

\* t is inside pthread_mutex_lock(&b->lock).
AtBufferLock(t) == pc[t] = "bget_acquire"

\* t is inside pthread_mutex_lock(&b->lock) and another thread owns b->lock.
WaitsForBuffer(t) == AtBufferLock(t) /\ lock[b[t]] \notin {NoThread, t}

(* C24: no thread holds the cache mutex while it performs a device read or *)
(* write or while it requests or waits for a buffer lock: on the hit, the  *)
(* recycle and the exhausted path bget has released the cache mutex before *)
(* it locks the buffer or returns.                                         *)
C24_NoCacheMutexAcrossBlocking ==
  \A t \in Threads :
    InDeviceCall(t) \/ AtBufferLock(t) \/ pc[t] = "bread_ret"
      => bcache_lock # t

(* One thread waits for a buffer lock while another does device I/O, and   *)
(* a third party could take the cache mutex: it is free.                   *)
C24_Witness ==
  \E t, u \in Threads :
    /\ WaitsForBuffer(t)
    /\ InDeviceCall(u)
    /\ lock[b[t]] = u
    /\ bcache_lock = NoThread


\* The step makes t the owner of bcache.lock.
AcquiresCache(t) == bcache_lock' = t /\ bcache_lock # t

\* The step makes t the owner of the lock of buffer x.
AcquiresBuffer(t, x) == lock'[x] = t /\ lock[x] # t

(* C25 as stated: the acquisition order is cache mutex first, buffer lock  *)
(* second: no thread acquires the cache mutex while it already holds a     *)
(* buffer lock.                                                            *)
C25_CacheMutexFirst ==
  [][\A t \in Threads :
       AcquiresCache(t) => \A x \in Bufs : lock[x] # t]_vars

(* C25 as amended: no thread acquires a buffer lock while it holds the     *)
(* cache mutex, and a thread that holds both at once took the buffer lock  *)
(* first: it is inside brelse, or inside bget while its caller keeps       *)
(* other buffers locked.                                                   *)
C25_BufferLockNeverUnderCacheMutex ==
  [][/\ \A t \in Threads : \A x \in Bufs :
          AcquiresBuffer(t, x) => bcache_lock # t /\ bcache_lock' # t
     /\ \A t \in Threads : \A x \in Bufs :
          bcache_lock' = t /\ lock'[x] = t =>
            /\ lock[x] = t
            /\ pc'[t] \in {"bget_unlock", "brelse_unlock"}]_vars

(* A thread inside brelse owns the cache mutex and the lock of the buffer  *)
(* it releases.                                                            *)
C25_Witness ==
  \E t \in Threads :
    /\ pc[t] = "brelse_unlock"
    /\ bcache_lock = t
    /\ lock[b[t]] = t
    /\ refcnt[b[t]] = 0


\* The thread whose statement the step executes.
Acts(t) == pc'[t] # pc[t]

\* The step writes refcnt, dev, blockno, valid or a list link of some buffer.
WritesBookkeeping == <<refcnt, dev, blockno, valid, next, prev>>' #
                       <<refcnt, dev, blockno, valid, next, prev>>

\* The step is bread's b->valid = true, executed by t.
SetsValid(t) ==
  /\ pc[t] = "bread_valid"
  /\ Acts(t)
  /\ valid' = [valid EXCEPT ![b[t]] = TRUE]
  /\ UNCHANGED <<refcnt, dev, blockno, next, prev>>

MovedToFront(order, x) == <<x>> \o SelectSeq(order, LAMBDA y : y # x)

\* The step is brelse's decrement of b->refcnt, executed by t.
Releases(t) == pc[t] = "brelse_dec" /\ Acts(t)

(* C27: the list order changes on a final release only: a brelse that      *)
(* brings refcnt to 0 moves its buffer to head.next and keeps the relative *)
(* order of the other buffers; a brelse that leaves refcnt above 0, every  *)
(* step of bread (hit, recycle, exhausted or failed read) and every step   *)
(* of bwrite leave the list as it is.                                      *)
C27_ListChangesOnFinalReleaseOnly ==
  [][\A t \in Threads :
       Acts(t) =>
         IF Releases(t) /\ refcnt'[b[t]] = 0
         THEN ListOrder' = MovedToFront(ListOrder, b[t])
         ELSE ListOrder' = ListOrder /\ next' = next /\ prev' = prev]_vars

(* A final release has moved the buffer from the tail of the list to its   *)
(* head while another buffer is still in use.                              *)
C27_Witness ==
  \E t \in Threads :
    /\ pc[t] = "brelse_unlock"
    /\ refcnt[b[t]] = 0
    /\ b[t] = 1
    /\ ListOrder = MovedToFront(Walk(buf_cache_init.next, buf_cache_init.next[head], NBUF), 1)
    /\ \E x \in Bufs : refcnt[x] > 0


\* u is between a bread that returned x and its brelse(x) and owns b->lock.
UsesLocked(u, x) == Holds(u, x) /\ lock[x] = u

\* Buffer x is assigned to the block p = <<dev, blockno>>.
Carries(x, p) == <<dev[x], blockno[x]>> = p

(* C28: requests for different blocks proceed independently: a bread for   *)
(* (dev, blockno) Y never waits for a buffer lock owned by a thread that   *)
(* is using a different block.  The block a thread uses is the one its     *)
(* buffer carries: bread returns a buffer that carries the pair asked for, *)
(* a buffer keeps its pair while a thread uses it, and a thread inside     *)
(* bget that finds the lock of its buffer owned by a thread using that     *)
(* buffer has asked for the pair the buffer carries.                       *)
C28_DifferentBlocksIndependent ==
  [][/\ \A u \in Threads :
          pc[u] = "bread_ret" /\ ret[u] # NULL =>
            Carries(ret[u], <<a_dev[u], a_blockno[u]>>)
     /\ \A u \in Threads : \A x \in held[u] :
          dev'[x] = dev[x] /\ blockno'[x] = blockno[x]
     /\ \A t, u \in Threads :
          WaitsForBuffer(t) /\ UsesLocked(u, b[t]) =>
            Carries(b[t], <<a_dev[t], a_blockno[t]>>)]_vars

(* While one thread uses a block, a bread for another block has got a      *)
(* buffer of its own and finds its lock free.                              *)
C28_Witness ==
  \E t, u \in Threads : \E x \in Bufs :
    /\ UsesLocked(u, x)
    /\ AtBufferLock(t)
    /\ ~Carries(x, <<a_dev[t], a_blockno[t]>>)
    /\ b[t] # x
    /\ lock[b[t]] = NoThread
    /\ workload = "threads"


\* Thread arrival[i] and thread arrival[j] are inside bread with the same
\* buffer, and arrival[i] got past bget's refcnt++ and unlock first.
ArrivedBefore(i, j) ==
  /\ i < j
  /\ b[arrival[i]] = b[arrival[j]]

\* bread is returning its buffer to t.
Served(t) == pc[t] = "bread_ret" /\ ret[t] # NULL

(* C29 as stated: two requesters of the same (dev, blockno) are served in  *)
(* arrival order: of two threads whose bgets incremented the refcnt of the *)
(* same buffer, the later one is not returned the buffer while the earlier *)
(* one is still inside bread.                                              *)
C29_ServedInArrivalOrder ==
  \A i, j \in DOMAIN arrival :
    ArrivedBefore(i, j) /\ Served(arrival[j]) => Served(arrival[i])

(* C29 as amended: requesters of the same buffer are served in the order   *)
(* in which they get the buffer's lock: every thread inside bread past     *)
(* bget has incremented the refcnt of its buffer, and it leaves bget's     *)
(* pthread_mutex_lock(&b->lock) only when no thread owns the lock, and     *)
(* as its owner, whether or not an earlier arrival still waits.            *)
C29_ServedInLockOrder ==
  [][/\ \A i \in DOMAIN arrival :
          /\ b[arrival[i]] # NULL
          /\ refcnt[b[arrival[i]]] >= 1
          /\ \A j \in DOMAIN arrival : i # j => arrival[i] # arrival[j]
     /\ \A t \in Threads :
          AtBufferLock(t) /\ Acts(t) =>
            /\ \E i \in DOMAIN arrival : arrival[i] = t
            /\ lock[b[t]] = NoThread
            /\ lock'[b[t]] = t
            /\ pc'[t] = "bread_check"
     /\ \A t \in Threads :
          pc'[t] = "bread_check" /\ Acts(t) => AtBufferLock(t)]_vars

(* The later of two requesters of one buffer owns its lock and is about to *)
(* be served while the earlier one is still inside                         *)
(* pthread_mutex_lock(&b->lock).                                           *)
C29_Witness ==
  \E i, j \in DOMAIN arrival :
    /\ ArrivedBefore(i, j)
    /\ AtBufferLock(arrival[i])
    /\ lock[b[arrival[j]]] = arrival[j]
    /\ pc[arrival[j]] \in {"bread_check", "bread_rw", "bread_valid", "bread_ret"}


(***************************************************************************)
(* Progress.  The scheduler is preemptive and runs every thread that can   *)
(* take a step of bget, bread, bwrite or brelse (weak fairness of the      *)
(* steps of each thread); a caller that keeps a buffer passes it to brelse *)
(* sooner or later, however often it calls bwrite before (strong fairness  *)
(* of the call of brelse); every device call returns (bread_rw and         *)
(* bwrite_rw are steps like the others).                                   *)
(***************************************************************************)
FairSpec ==
  /\ Init
  /\ [][Next]_vars
  /\ \A t \in Threads : WF_vars(Step(t)) /\ SF_vars(Brelse(t))

\* t is inside pthread_mutex_lock and the mutex has an owner.
Blocked(t) ==
  \/ pc[t] \in {"bget_scan", "brelse_dec"} /\ bcache_lock # NoThread
  \/ AtBufferLock(t) /\ lock[b[t]] # NoThread

\* t is inside bread.
BreadRunning(t) ==
  pc[t] \in {"bget_scan", "bget_unlock", "bget_acquire", "bread_check",
             "bread_rw", "bread_fail", "bread_valid"}

Linked(x) == prev[next[x]] = x /\ next[prev[x]] = x

\* From head, next visits each buffer once and comes back to head.
Circular ==
  /\ Len(ListOrder) = NBUF
  /\ Range(ListOrder) = Bufs
  /\ next[ListOrder[NBUF]] = head

(* C31: whenever the cache mutex is free the buffers form a well-formed    *)
(* circular doubly-linked list: from head, next visits each of the NBUF    *)
(* buffers exactly once and returns to head, and every node x satisfies    *)
(* x.next.prev == x == x.prev.next.                                        *)
C31_ListWellFormed ==
  bcache_lock = NoThread => Circular /\ \A x \in Nodes : Linked(x)

(* The cache mutex is free after a final release moved buffer 1 from the   *)
(* tail of the list to head.next.                                          *)
C31_Witness ==
  /\ bcache_lock = NoThread
  /\ relorder # <<>>
  /\ next[head] = 1
  /\ prev[head] = 2


\* The step assigns buffer x to another block or clears its valid flag.
Reassigns(x) ==
  \/ dev'[x] # dev[x]
  \/ blockno'[x] # blockno[x]
  \/ valid[x] /\ ~valid'[x]

(* C32: a pinned buffer keeps its identity: no step changes dev or blockno *)
(* or clears valid of a buffer whose refcnt is above 0; the only step that *)
(* does so is bget's recycling, of a buffer whose refcnt is 0 and becomes  *)
(* 1, for the block the caller asked for.                                  *)
C32_PinnedKeepsIdentity ==
  [][\A x \in Bufs :
       /\ refcnt[x] > 0 =>
            dev'[x] = dev[x] /\ blockno'[x] = blockno[x] /\ (valid[x] => valid'[x])
       /\ Reassigns(x) =>
            /\ refcnt[x] = 0
            /\ refcnt'[x] = 1
            /\ \E t \in Threads :
                 /\ pc[t] = "bget_scan" /\ pc'[t] = "bget_unlock"
                 /\ b'[t] = x
                 /\ <<dev'[x], blockno'[x]>> = <<a_dev[t], a_blockno[t]>>
                 /\ ~valid'[x]]_vars

(* bget has just recycled a buffer that had been used and released, while  *)
(* another buffer is pinned and keeps its block.                           *)
C32_Witness ==
  \E t \in Threads : \E y \in Bufs :
    /\ pc[t] = "bget_unlock"
    /\ b[t] # NULL
    /\ b[t] \in Range(relorder)
    /\ refcnt[b[t]] = 1
    /\ ~valid[b[t]]
    /\ y # b[t]
    /\ refcnt[y] > 0
    /\ valid[y]


(***************************************************************************)
(* Device reads and the valid flag.                                        *)
(***************************************************************************)
\* t is inside bread between its test of b->valid and its return.
Reading(t) == pc[t] \in {"bread_rw", "bread_valid", "bread_fail"}

C34_ValidMeansRead ==
  [][/\ \A x \in Bufs : valid[x] => nread[x] >= 1
     /\ \A t \in Threads :
          pc[t] = "bread_fail" =>
            ~valid[b[t]] /\ (Acts(t) => ~valid'[b[t]] /\ ret'[t] = NULL)
     /\ \A t \in Threads :
          pc[t] = "bread_check" /\ Acts(t) /\ ~valid[b[t]] =>
            pc'[t] = "bread_rw" /\ ret'[t] = NULL]_vars

(* A bread of a block whose earlier device read failed is reading the      *)
(* block in again.                                                         *)
C34_Witness ==
  \E t \in Threads :
    /\ pc[t] = "bread_rw"
    /\ nfail[b[t]] >= 1
    /\ ~valid[b[t]]
    /\ nread[b[t]] = 0


(***************************************************************************)
(* bwrite and the buffer's lock.                                           *)
(***************************************************************************)
\* t is inside bwrite.
InBwrite(t) == pc[t] \in {"bwrite_trylock", "bwrite_rw", "bwrite_unlock"}

(* C35: a bwrite(b) by the thread that holds b and owns its lock leaves    *)
(* refcnt, dev, blockno, valid and the list as they are, and when it       *)
(* returns, with true or with false, the caller still owns b's lock.       *)
C35_BwriteKeepsBufferAndLock ==
  [][\A t \in Threads :
       InBwrite(t) /\ Acts(t) /\ hadlock[t] =>
         /\ UNCHANGED <<refcnt, dev, blockno, valid, next, prev>>
         /\ pc'[t] = "bwrite_ret" => lock'[b[t]] = t]_vars

(* C36: a bwrite(b) that finds b's lock owned by no thread returns false,  *)
(* issues no device write and leaves the buffer as it is, its lock free    *)
(* included.                                                               *)
C36_BwriteOnFreeLockLeavesItFree ==
  [][\A t \in Threads :
       pc[t] = "bwrite_trylock" /\ Acts(t) /\ lock[b[t]] = NoThread =>
         /\ pc'[t] = "bwrite_ret"
         /\ wret'[t] = FALSE
         /\ nwrite'[t] = 0
         /\ UNCHANGED <<refcnt, dev, blockno, valid, next, prev>>
         /\ lock'[b[t]] = NoThread]_vars


(* The segments that hold a block balloc has returned.                     *)
AllocatedSegments == {SEGNO(allocs[k].b) : k \in 1..Len(allocs)}

(* C37: in checkpoint 1 of the finished image, bit s of the segment usage  *)
(* bitmap is set if and only if segment s contains at least one block      *)
(* returned by balloc, the imap blocks included.                           *)
C37_SegtableMatchesAllocation ==
  Finished =>
    /\ Block(2).kind = "checkpoint"
    /\ \A sg \in AllocatedSegments \cup Block(2).segtable :
         sg \in Block(2).segtable <=> sg \in AllocatedSegments

(* A finished image whose last segment holds nothing but an imap block.    *)
C37_Witness ==
  /\ Finished
  /\ \E sg \in Block(2).segtable :
       /\ sg > 0
       /\ \A k \in 1..Len(allocs) :
            SEGNO(allocs[k].b) = sg => allocs[k].block_type = SEGSUM_IMAP

(* Checkpoint 1 is on the disk.                                            *)
Stamped == Timestamp(Block(2)) = 1

(* The block of an allocation holds what its summary entry says.           *)
WrittenAs(a) ==
  Block(a.b).kind = CASE a.block_type = SEGSUM_INODE -> "dinode"
                      [] a.block_type = SEGSUM_DATA -> "data"
                      [] a.block_type = SEGSUM_INDIRECT -> "indirect"
                      [] OTHER -> "dimap"

(* Imap block k as wimap builds it from imp[].                             *)
ImapOf(k) ==
  ImapBlock([j \in 0..(NENTRY - 1) |->
               IF k * NENTRY + j < NINODES THEN imp[k * NENTRY + j] ELSE 0])

(* C38: checkpoint 1 is written only after everything it makes reachable.  *)
(* In every state of the build in which block 2 has time stamp 1, all      *)
(* NINODEMAP imap blocks it names are written, every inode block they name *)
(* holds its final dinode (the root directory with its size rounded up),   *)
(* and every inode, data, indirect and imap block balloc has returned is   *)
(* written; from then on no block but block 3 is written and nothing is    *)
(* allocated.                                                              *)
C38_CheckpointWrittenLast ==
  [][Stamped =>
       /\ \A k \in 0..(NINODEMAP - 1) :
            /\ Block(2).imap[k] # 0
            /\ Block(Block(2).imap[k]) = ImapOf(k)
       /\ \A i \in Allocated :
            i < NINODES =>
              /\ ImapLookup(i) = imp[i]
              /\ AsDinode(Block(ImapLookup(i))).type # 0
       /\ AsDinode(Block(ImapLookup(ROOTINO))).size % BSIZE = 0
       /\ AsDinode(Block(ImapLookup(ROOTINO))).size > Unrounded
       /\ AsDinode(Block(ImapLookup(ROOTINO))).size <= Unrounded + BSIZE
       /\ \A k \in 1..Len(allocs) : WrittenAs(allocs[k])
       /\ \A j \in 0..(fsize' - 1) : j # 3 => j < fsize /\ disk'[j] = disk[j]
       /\ allocs' = allocs
       /\ freeblock' = freeblock
       /\ imp' = imp]_vars

(* Checkpoint 1 is on the disk of a build with two input files, one of     *)
(* them with an indirect block, and checkpoint 2 is still to be written.   *)
C38_Witness ==
  /\ Stamped
  /\ mpc = "wchkpt2"
  /\ nfile = 2
  /\ \E k \in 1..Len(allocs) : allocs[k].block_type = SEGSUM_INDIRECT
  /\ Block(3).kind = "zeroes"

(* The summary blocks of an image file of n blocks, and the entry that     *)
(* summary block bn of the image d has for its slot e, which describes     *)
(* block bn + e + 1.                                                       *)
SummaryBlocksOf(n) ==
  {NMETA + sg * SEGSIZE : sg \in 0..((n - NMETA + SEGSIZE - 1) \div SEGSIZE - 1)}
SummaryBlocks == SummaryBlocksOf(fsize)
EntryIn(d, bn, e) == AsSegsum(d[bn])[e]
EntryOf(bn, e) == EntryIn(disk, bn, e)
ReturnedBlocks == {allocs[k].b : k \in 1..Len(allocs)}

(* C39: in every state of the build a segment-summary entry is non-EMPTY   *)
(* only if the block it describes has been returned by balloc: summary     *)
(* contents are found in summary blocks only, the entries of blocks at or  *)
(* beyond the freeblock cursor and of blocks never returned are all zero,  *)
(* and the entry of a returned block is never written again.               *)
C39_SummaryOnlyForReturned ==
  [][\E before \in {ReturnedBlocks}, after \in {ReturnedBlocks'},
        d \in {disk'}, sums \in {SummaryBlocksOf(fsize')} :
       /\ \A k \in DOMAIN d : d[k].kind = "dsegsum" => k \in sums
       /\ \A bn \in sums :
            d[bn].kind = "dsegsum" =>
              \A e \in 0..(SEGSIZE - 2) :
                /\ d[bn].entry[e] # ZeroEntry =>
                     /\ bn + e + 1 \in after
                     /\ bn + e + 1 < freeblock'
                     /\ d[bn].entry[e].block_type # SEGSUM_EMPTY
                /\ bn + e + 1 \in before =>
                     /\ bn < fsize
                     /\ d[bn].entry[e] = EntryOf(bn, e)
       /\ \A blk \in before : d[NMETA + SEGNO(blk) * SEGSIZE].kind = "dsegsum"]_vars

(* A summary block with the entry of a returned block next to the zero     *)
(* entry of a block that is still free, while the build allocates on.      *)
C39_Witness ==
  /\ mpc = "read"
  /\ \E bn \in SummaryBlocks :
       /\ bn > NMETA
       /\ EntryOf(bn, 0) # ZeroEntry
       /\ EntryOf(bn, 1) = ZeroEntry
       /\ freeblock = bn + 2

(* C40: every block returned by balloc lies inside the segment region the  *)
(* superblock describes: its segment number (b - NMETA) / SEGSIZE is below *)
(* NSEG, the nsegments field, that is NMETA < b < NMETA + NSEG * SEGSIZE.   *)
C40_InsideSegmentRegion ==
  \A k \in 1..Len(allocs) :
    /\ SEGNO(Returned[k]) < NSEG
    /\ NMETA < Returned[k]
    /\ Returned[k] < NMETA + NSEG * SEGSIZE

====
